---------------------------- MODULE Spec2Model ----------------------------
(***************************************************************************)
(* simd-blit: alpha compositing (blend8) and SSAA gathering (ssaa8) on     *)
(* packs of eight RGBA pixels, in its two implementations                  *)
(* (src/sequential.rs and src/simd.rs, selected by the `simd` feature in   *)
(* src/lib.rs).                                                            *)
(*                                                                         *)
(* A pack is a function 0..31 -> u16, a byte slice is a sequence of bytes, *)
(* a pixel is a 4-tuple of bytes.  Machine integers keep their width:      *)
(* u8 and u16 are exact; usize is modelled at the width of a 16-bit target *)
(* (usize::MAX = 65535) so that y * width + x can overflow inside the      *)
(* model checker's integers.  Scalar `+`, `*` and `-` overflow according   *)
(* to the build: with overflow checks (the default of debug and test       *)
(* profiles) they panic, without them they wrap.  The operators of         *)
(* core::simd vectors always wrap.                                         *)
(***************************************************************************)
EXTENDS Integers, Sequences, FiniteSets, TLC

\* ------------------------------------------------------------------------
\* Machine constants

U8_MAX == 255

U16_MAX == 65535

USIZE_MAX == 65535

LANES == 32

PACK_PIXELS == 8

\* ------------------------------------------------------------------------
\* Bounds of the model

\* number of blend8 / write calls on one destination buffer
MaxOps == 1

\* largest SSAA_SQ (number of subpixel rows of a table)
MaxK == 2

\* number of set calls on one table
MaxSets == 2

\* ------------------------------------------------------------------------
\* Integer arithmetic

Wrap(v, max) == v % (max + 1)

\* i & !3
AndNot3(i) == i - (i % 4)

\* `item as u16` on a u8: zero extension
u8_as_u16(b) == b

\* `item as u8` on a u16: truncation to the low eight bits
u16_as_u8(v) == v % (U8_MAX + 1)

\* `SSAA_SQ as u16`
usize_as_u16(v) == v % (U16_MAX + 1)

Lanes == 0 .. (LANES - 1)

\* ------------------------------------------------------------------------
\* EightPixels

\* array[..src.len()] panics when the slice is longer than the array
new_panics(bytes) == Len(bytes) > LANES

EightPixels_new(bytes) ==
    [i \in Lanes |-> IF i < Len(bytes) THEN u8_as_u16(bytes[i + 1]) ELSE 0]

\* [..dst.len()] of the 32-byte array panics when dst is longer
write_panics(dst) == Len(dst) > LANES

EightPixels_write(self, dst) ==
    [k \in 1 .. Len(dst) |-> u16_as_u8(self[k - 1])]

\* ------------------------------------------------------------------------
\* AlphaConfig and blend8

AlphaConfig == {"FirstByte", "SecondByte", "ThirdByte", "FourthByte", "None"}

\* a variant that counts the channels from the last byte
alpha_channel_from_end(alpha_config) ==
    CASE alpha_config = "FirstByte"  -> 3
      [] alpha_config = "SecondByte" -> 2
      [] alpha_config = "ThirdByte"  -> 1
      [] alpha_config = "FourthByte" -> 0

alpha_channel(alpha_config) ==
    CASE alpha_config = "FirstByte"  -> 0
      [] alpha_config = "SecondByte" -> 1
      [] alpha_config = "ThirdByte"  -> 2
      [] alpha_config = "FourthByte" -> 3

\* sequential.rs, one iteration of `for i in 0..32`: the exact values of the
\* three u16 operations whose overflow the build decides
seq_src_a(src, a, i) == src[AndNot3(i) + a]

\* a variant that takes the weights to add up to 256
seq_dst_a_256(src, a, i) == (U8_MAX + 1) - seq_src_a(src, a, i)

seq_dst_a(src, a, i) == U8_MAX - seq_src_a(src, a, i)

seq_sum(src, dst_p, a, i) ==
    LET src_a == seq_src_a(src, a, i)
        dst_a == Wrap(seq_dst_a(src, a, i), U16_MAX)
    IN  Wrap(src[i] * src_a, U16_MAX) + Wrap(dst_p[i] * dst_a, U16_MAX)

seq_lane_overflows(src, dst_p, a, i) ==
    LET src_a == seq_src_a(src, a, i)
        dst_a == seq_dst_a(src, a, i)
    IN  \/ dst_a < 0
        \/ src[i] * src_a > U16_MAX
        \/ dst_p[i] * Wrap(dst_a, U16_MAX) > U16_MAX
        \/ seq_sum(src, dst_p, a, i) > U16_MAX

\* a variant that divides by 256 (a shift) instead of 255
seq_blend_lanes_shift(src, dst_p, a) ==
    [i \in Lanes |-> Wrap(seq_sum(src, dst_p, a, i), U16_MAX) \div (U8_MAX + 1)]

seq_blend_lanes(src, dst_p, a) ==
    [i \in Lanes |-> Wrap(seq_sum(src, dst_p, a, i), U16_MAX) \div U8_MAX]

\* Outcome of sequential::blend8: the destination bytes afterwards and
\* whether the call panicked (the destination is then untouched).
sequential_blend8(checks, src, dst, alpha_config) ==
    IF alpha_config # "None"
    THEN IF new_panics(dst)
         THEN [panic |-> TRUE, dst |-> dst]
         ELSE LET dst_p == EightPixels_new(dst)
                  a     == alpha_channel(alpha_config)
              IN  IF checks /\ \E i \in Lanes : seq_lane_overflows(src, dst_p, a, i)
                  THEN [panic |-> TRUE, dst |-> dst]
                  ELSE [panic |-> FALSE,
                        dst   |-> EightPixels_write(seq_blend_lanes(src, dst_p, a), dst)]
    ELSE IF write_panics(dst)
         THEN [panic |-> TRUE, dst |-> dst]
         ELSE [panic |-> FALSE, dst |-> EightPixels_write(src, dst)]

\* simd.rs
gen_swizzle(byte) == [i \in Lanes |-> byte + AndNot3(i)]

simd_swizzle(v, idx) == [i \in Lanes |-> v[idx[i]]]

simd_blend_lanes(src, dst_p, a) ==
    LET src_a == simd_swizzle(src, gen_swizzle(a))
        dst_a == [i \in Lanes |-> Wrap(U8_MAX - src_a[i], U16_MAX)]
    IN  [i \in Lanes |->
            Wrap(Wrap(src[i] * src_a[i], U16_MAX) + Wrap(dst_p[i] * dst_a[i], U16_MAX),
                 U16_MAX) \div U8_MAX]

simd_blend8(src, dst, alpha_config) ==
    IF alpha_config # "None"
    THEN IF new_panics(dst)
         THEN [panic |-> TRUE, dst |-> dst]
         ELSE [panic |-> FALSE,
               dst   |-> EightPixels_write(
                             simd_blend_lanes(src, EightPixels_new(dst),
                                              alpha_channel(alpha_config)), dst)]
    ELSE IF write_panics(dst)
         THEN [panic |-> TRUE, dst |-> dst]
         ELSE [panic |-> FALSE, dst |-> EightPixels_write(src, dst)]

\* lib.rs: the `simd` feature selects the implementation module
blend8(feature, checks, src, dst, alpha_config) ==
    IF feature = "simd"
    THEN simd_blend8(src, dst, alpha_config)
    ELSE sequential_blend8(checks, src, dst, alpha_config)

\* ------------------------------------------------------------------------
\* SsaaCoords

Slots == 0 .. (PACK_PIXELS - 1)

Channels == 0 .. 3

SsaaCoords_new(K) ==
    LET FULL_USIZE_MAX == [j \in Slots |-> USIZE_MAX]
        table          == [i \in 0 .. (K - 1) |-> FULL_USIZE_MAX]
    IN  [src_o |-> table, src_x |-> table, src_y |-> table]

\* a variant whose row index wraps around the table instead of being checked
store_wrapping(table, sub_pixel, pixel, v) ==
    IF pixel \in Slots
    THEN [panic |-> FALSE,
          table |-> [table EXCEPT ![sub_pixel % Cardinality(DOMAIN table)][pixel] = v]]
    ELSE [panic |-> TRUE, table |-> table]

\* table[sub_pixel][pixel] = v, with the bounds checks of both index steps
store(table, sub_pixel, pixel, v) ==
    IF sub_pixel \in DOMAIN table /\ pixel \in DOMAIN table[sub_pixel]
    THEN [panic |-> FALSE, table |-> [table EXCEPT ![sub_pixel][pixel] = v]]
    ELSE [panic |-> TRUE, table |-> table]

\* the three stores of set, in order: each one that succeeds is kept, the
\* first one that fails ends the call
stores(self, sub_pixel, pixel, o, x, y) ==
    LET so == store(self.src_o, sub_pixel, pixel, o)
        c1 == [self EXCEPT !.src_o = so.table]
    IN  IF so.panic
        THEN [panic |-> TRUE, coords |-> c1]
        ELSE LET sx == store(self.src_x, sub_pixel, pixel, x)
                 c2 == [c1 EXCEPT !.src_x = sx.table]
             IN  IF sx.panic
                 THEN [panic |-> TRUE, coords |-> c2]
                 ELSE LET sy == store(self.src_y, sub_pixel, pixel, y)
                      IN  [panic  |-> sy.panic,
                           coords |-> [c2 EXCEPT !.src_y = sy.table]]

\* a variant that records the row as the output slot
SsaaCoords_set_row_as_slot(self, pixel, sub_pixel, x, y) ==
    IF ~(pixel < PACK_PIXELS)
    THEN [panic |-> TRUE, coords |-> self]
    ELSE stores(self, sub_pixel, pixel, sub_pixel, x, y)

\* a variant that stores x and y in each other's table
SsaaCoords_set_swapped(self, pixel, sub_pixel, x, y) ==
    IF ~(pixel < PACK_PIXELS)
    THEN [panic |-> TRUE, coords |-> self]
    ELSE stores(self, sub_pixel, pixel, pixel, y, x)

\* Outcome of SsaaCoords::set (the same text in both implementations): the
\* table as the call leaves it, and whether the call panicked.
SsaaCoords_set(self, pixel, sub_pixel, x, y) ==
    IF ~(pixel < PACK_PIXELS)
    THEN [panic |-> TRUE, coords |-> self]
    ELSE stores(self, sub_pixel, pixel, pixel, x, y)

\* ------------------------------------------------------------------------
\* PixelArray (the caller's image): width, height, length and the pixels
\* that get returns for the indices below length

OutOfRangePixel == <<U8_MAX, U8_MAX, U8_MAX, U8_MAX>>

PixelArray_get(src, index) ==
    IF index \in DOMAIN src.pixels THEN src.pixels[index] ELSE OutOfRangePixel

\* ------------------------------------------------------------------------
\* ssaa8

ZeroSums == [o \in Slots |-> [c \in Channels |-> 0]]

GatherInit ==
    [panic |-> FALSE, sum |-> ZeroSums, ssaa_px |-> [o \in Slots |-> 0], gets |-> <<>>]

\* src_y * src_w + src_x on usize, exact and as the machine keeps it
index_overflows(src_x, src_y, src_w) ==
    \/ src_y * src_w > USIZE_MAX
    \/ Wrap(src_y * src_w, USIZE_MAX) + src_x > USIZE_MAX

index_of(src_x, src_y, src_w) ==
    Wrap(Wrap(src_y * src_w, USIZE_MAX) + src_x, USIZE_MAX)

\* a variant that trusts the coordinates and skips the check of the index
usable_entry_no_length(src_x, src_y, src_i, src) ==
    (src_x < src.width) /\ (src_y < src.height)

usable_entry(src_x, src_y, src_i, src) ==
    (src_x < src.width) /\ (src_y < src.height) /\ (src_i < src.length)

\* the body of `if usable`: the pixel is fetched, then added to slot src_o
\* (an index past the eight slots panics), then the slot's count is bumped;
\* `checks` decides whether an overflowing scalar addition panics or wraps
accumulate(checks, st, i, j, src_o, src_i, src) ==
    LET rgba == PixelArray_get(src, src_i)
        got  == Append(st.gets, [i |-> i, j |-> j, o |-> src_o, index |-> src_i])
    IN  IF src_o \notin Slots
        THEN [st EXCEPT !.panic = TRUE, !.gets = got]
        ELSE LET exact == [c \in Channels |-> st.sum[src_o][c] + u8_as_u16(rgba[c + 1])]
                 count == st.ssaa_px[src_o] + 1
                 over  == (\E c \in Channels : exact[c] > U16_MAX) \/ count > U16_MAX
             IN  IF checks /\ over
                 THEN [st EXCEPT !.panic = TRUE, !.gets = got]
                 ELSE [st EXCEPT
                         !.gets = got,
                         !.sum[src_o] = [c \in Channels |-> Wrap(exact[c], U16_MAX)],
                         !.ssaa_px[src_o] = Wrap(count, U16_MAX)]

\* sequential.rs, one iteration of `for j in 0..8` inside `for i in 0..SSAA_SQ`
seq_entry(checks, st, src_coords, src, i, j) ==
    LET src_o == src_coords.src_o[i][j]
        src_x == src_coords.src_x[i][j]
        src_y == src_coords.src_y[i][j]
        src_i == index_of(src_x, src_y, src.width)
    IN  IF checks /\ index_overflows(src_x, src_y, src.width)
        THEN [st EXCEPT !.panic = TRUE]
        ELSE IF usable_entry(src_x, src_y, src_i, src)
             THEN accumulate(checks, st, i, j, src_o, src_i, src)
             ELSE st

\* the state of the gather loops after the first n entries, in (i, j) order
RECURSIVE seq_gather(_, _, _, _)
seq_gather(checks, src_coords, src, n) ==
    IF n = 0
    THEN GatherInit
    ELSE LET st == seq_gather(checks, src_coords, src, n - 1)
         IN  IF st.panic
             THEN st
             ELSE seq_entry(checks, st, src_coords, src,
                            (n - 1) \div PACK_PIXELS, (n - 1) % PACK_PIXELS)

\* simd.rs: the lanes of src_i and usable are computed for the whole row with
\* wrapping vector operations, then the row's entries are visited in order;
\* the vector addition into src_sum wraps, the scalar count follows the build
simd_entry(checks, st, src_coords, src, i, j) ==
    LET src_o == src_coords.src_o[i][j]
        src_x == src_coords.src_x[i][j]
        src_y == src_coords.src_y[i][j]
        src_i == index_of(src_x, src_y, src.width)
    IN  IF usable_entry(src_x, src_y, src_i, src)
        THEN LET rgba == PixelArray_get(src, src_i)
                 got  == Append(st.gets, [i |-> i, j |-> j, o |-> src_o, index |-> src_i])
             IN  IF src_o \notin Slots
                 THEN [st EXCEPT !.panic = TRUE, !.gets = got]
                 ELSE LET count == st.ssaa_px[src_o] + 1
                      IN  IF checks /\ count > U16_MAX
                          THEN [st EXCEPT
                                  !.panic = TRUE,
                                  !.gets = got,
                                  !.sum[src_o] =
                                      [c \in Channels |->
                                          Wrap(st.sum[src_o][c] + u8_as_u16(rgba[c + 1]), U16_MAX)]]
                          ELSE [st EXCEPT
                                  !.gets = got,
                                  !.sum[src_o] =
                                      [c \in Channels |->
                                          Wrap(st.sum[src_o][c] + u8_as_u16(rgba[c + 1]), U16_MAX)],
                                  !.ssaa_px[src_o] = Wrap(count, U16_MAX)]
        ELSE st

RECURSIVE simd_gather(_, _, _, _)
simd_gather(checks, src_coords, src, n) ==
    IF n = 0
    THEN GatherInit
    ELSE LET st == simd_gather(checks, src_coords, src, n - 1)
         IN  IF st.panic
             THEN st
             ELSE simd_entry(checks, st, src_coords, src,
                             (n - 1) \div PACK_PIXELS, (n - 1) % PACK_PIXELS)

\* DIVIDE BY NUMBER OF SUBPIXELS: the `if true` branch, every slot by SSAA_SQ
divide(sum, K) ==
    [l \in Lanes |-> sum[l \div 4][l % 4] \div usize_as_u16(K)]

ZeroPack == [l \in Lanes |-> 0]

\* what a call leaves behind: the returned pack (when it returns), the sums
\* before the division, the per-slot counts and the calls made to get
finish(st, K) ==
    IF st.panic \/ usize_as_u16(K) = 0
    THEN [panic |-> TRUE, pack |-> ZeroPack, sum |-> st.sum,
          ssaa_px |-> st.ssaa_px, gets |-> st.gets]
    ELSE [panic |-> FALSE, pack |-> divide(st.sum, K), sum |-> st.sum,
          ssaa_px |-> st.ssaa_px, gets |-> st.gets]

sequential_ssaa8(checks, src_coords, src, K) ==
    finish(seq_gather(checks, src_coords, src, K * PACK_PIXELS), K)

simd_ssaa8(checks, src_coords, src, K) ==
    finish(simd_gather(checks, src_coords, src, K * PACK_PIXELS), K)

ssaa8(feature, checks, src_coords, src, K) ==
    IF feature = "simd"
    THEN simd_ssaa8(checks, src_coords, src, K)
    ELSE sequential_ssaa8(checks, src_coords, src, K)

\* ------------------------------------------------------------------------
\* Inputs of the calls

Repeat8(px) == px \o px \o px \o px \o px \o px \o px \o px

BasePixels ==
    <<64, 10, 20, 30>> \o <<200, 100, 50, 128>> \o <<255, 255, 255, 255>> \o
    <<0, 0, 0, 0>> \o <<0, 255, 77, 1>> \o <<255, 0, 1, 77>> \o
    <<77, 1, 0, 255>> \o <<1, 77, 255, 0>>

\* BasePixels with byte a of every pixel cleared
ClearedAt(a) ==
    [k \in 1 .. Len(BasePixels) |-> IF (k - 1) % 4 = a THEN 0 ELSE BasePixels[k]]

\* byte slices handed to EightPixels::new: eight full pixels, a tail of five
\* bytes, a slice one byte too long, and packs with one byte of every pixel 0
SrcSlices ==
    {BasePixels, SubSeq(BasePixels, 1, 5), BasePixels \o <<9>>}
        \cup {ClearedAt(a) : a \in Channels}

\* destination buffers: eight pixels (opaque grey, saturated), a tail of
\* eleven bytes, a single pixel, an empty buffer, and one of 33 bytes
DstSlices ==
    { Repeat8(<<0, 100, 100, 100>>),
      Repeat8(<<255, 255, 255, 255>>),
      <<0, 0, 0, 255, 255, 255, 255, 255, 1, 2, 3>>,
      <<9, 8, 7, 6>>,
      <<>>,
      Repeat8(<<0, 100, 100, 100>>) \o <<7>> }

\* 2^8 * 2^8 = usize::MAX + 1: the smallest product that wraps to 0
WrapDim == 2 ^ 8

Pixels4(p0, p1, p2, p3) == [n \in 0 .. 3 |-> <<p0, p1, p2, p3>>[n + 1]]

\* images: a 2x2 with saturated pixels, a 1x2 whose length (3) exceeds
\* width * height, an image whose width * height exceeds usize and whose
\* length is 2, and an empty image
Images ==
    { [width |-> 2, height |-> 2, length |-> 4,
       pixels |-> Pixels4(<<255, 255, 255, 255>>, <<1, 2, 3, 4>>,
                          <<255, 0, 255, 0>>, <<7, 7, 7, 7>>)],
      [width |-> 1, height |-> 2, length |-> 3,
       pixels |-> [n \in 0 .. 2 |-> <<10 + n, 20 + n, 30 + n, 255>>]],
      [width |-> WrapDim, height |-> USIZE_MAX, length |-> 2,
       pixels |-> [n \in 0 .. 1 |-> <<90 + n, 91, 92, 93>>]],
      [width |-> 0, height |-> 0, length |-> 0,
       pixels |-> [n \in {} |-> <<0, 0, 0, 0>>]] }

\* arguments of set: pixel (8 is out of range), and (x, y)
PixelArgs == {0, PACK_PIXELS - 1, PACK_PIXELS}

CoordArgs == {<<0, 0>>, <<1, 1>>, <<0, WrapDim>>}

\* byte slices handed to EightPixels::new between SSAA calls
PackArgs == {<<255, 128, 0, 1, 255>>, BasePixels \o <<9>>}

Features == {"sequential", "simd"}

\* ------------------------------------------------------------------------
\* State

VARIABLES
    feature,          \* the implementation compiled in (lib.rs)
    overflow_checks,  \* whether the build checks integer overflow
    status,           \* "running", or "panicked" once a call was fatal
    pack,             \* the EightPixels the caller holds
    dst,              \* the caller's destination buffer
    ops,              \* blend8 / write calls made on dst
    SSAA_SQ,          \* the const parameter of SsaaCoords and ssaa8
    coords,           \* the SsaaCoords table
    live,             \* FALSE once ssaa8 has taken the table by value
    nsets,            \* set calls made on the table
    hist,             \* per entry: whether set was called, and its last (x, y)
    pixel_array,      \* the caller's image
    last              \* the last call: its name, arguments and outcome

vars == <<feature, overflow_checks, status, pack, dst, ops, SSAA_SQ, coords,
          live, nsets, hist, pixel_array, last>>

build_vars == <<feature, overflow_checks, SSAA_SQ, pixel_array>>

blend_vars == <<dst, ops>>

table_vars == <<coords, live, nsets, hist>>

Unset == [set |-> FALSE, x |-> 0, y |-> 0]

NoHist(K) == [i \in 0 .. (K - 1) |-> [j \in Slots |-> Unset]]

\* the caller's record of entry (sub_pixel, pixel), for the entries of the table
InTable(h, sub_pixel, pixel) == sub_pixel \in DOMAIN h /\ pixel \in DOMAIN h[sub_pixel]

Recorded(h, sub_pixel, pixel) ==
    IF InTable(h, sub_pixel, pixel) THEN h[sub_pixel][pixel] ELSE Unset

Record(h, sub_pixel, pixel, x, y) ==
    IF InTable(h, sub_pixel, pixel)
    THEN [h EXCEPT ![sub_pixel][pixel] = [set |-> TRUE, x |-> x, y |-> y]]
    ELSE h

After(panic) == IF panic THEN "panicked" ELSE "running"

InitBuild ==
    /\ feature \in Features
    /\ overflow_checks \in BOOLEAN
    /\ status = "running"
    /\ pack = EightPixels_new(<<>>)
    /\ ops = 0
    /\ live = TRUE
    /\ nsets = 0
    /\ last = [op |-> "init"]

\* a caller that composites onto one of the destination buffers
InitBlend ==
    /\ InitBuild
    /\ dst \in DstSlices
    /\ SSAA_SQ = 1
    /\ coords = SsaaCoords_new(1)
    /\ hist = NoHist(1)
    /\ pixel_array \in {im \in Images : im.length = 0}

\* a caller that has made a table of SSAA_SQ rows (SsaaCoords::new), fills
\* it, gathers from an image, and reads packs from bytes afterwards
InitSsaa ==
    /\ InitBuild
    /\ dst = <<>>
    /\ SSAA_SQ \in 1 .. MaxK
    /\ coords = SsaaCoords_new(SSAA_SQ)
    /\ hist = NoHist(SSAA_SQ)
    /\ pixel_array \in Images

\* ------------------------------------------------------------------------
\* Calls

\* let pack = EightPixels::new(bytes)
New(bytes) ==
    /\ status = "running"
    /\ pack' = IF new_panics(bytes) THEN pack ELSE EightPixels_new(bytes)
    /\ status' = After(new_panics(bytes))
    /\ last' = [op |-> "new", bytes |-> bytes, panic |-> new_panics(bytes)]
    /\ UNCHANGED <<build_vars, blend_vars, table_vars>>

\* pack.write(&mut dst)
Write ==
    /\ status = "running"
    /\ ops < MaxOps
    /\ ops' = ops + 1
    /\ dst' = IF write_panics(dst) THEN dst ELSE EightPixels_write(pack, dst)
    /\ status' = After(write_panics(dst))
    /\ last' = [op |-> "write", src |-> pack, dst |-> dst, panic |-> write_panics(dst)]
    /\ UNCHANGED <<build_vars, table_vars, pack>>

\* blend8(pack, &mut dst, alpha_config)
Blend8(alpha_config) ==
    /\ status = "running"
    /\ ops < MaxOps
    /\ ops' = ops + 1
    /\ LET r == blend8(feature, overflow_checks, pack, dst, alpha_config)
       IN  /\ dst' = r.dst
           /\ status' = After(r.panic)
           /\ last' = [op |-> "blend8", src |-> pack, dst |-> dst,
                       alpha_config |-> alpha_config, panic |-> r.panic]
    /\ UNCHANGED <<build_vars, table_vars, pack>>

\* coords.set(pixel, sub_pixel, x, y)
Set(pixel, sub_pixel, x, y) ==
    /\ status = "running"
    /\ live
    /\ nsets < MaxSets
    /\ nsets' = nsets + 1
    /\ LET r == SsaaCoords_set(coords, pixel, sub_pixel, x, y)
       IN  /\ coords' = r.coords
           /\ status' = After(r.panic)
           /\ hist' = IF r.panic THEN hist ELSE Record(hist, sub_pixel, pixel, x, y)
           /\ last' = [op |-> "set", pixel |-> pixel, sub_pixel |-> sub_pixel,
                       x |-> x, y |-> y, panic |-> r.panic,
                       old |-> Recorded(hist, sub_pixel, pixel)]
    /\ UNCHANGED <<build_vars, blend_vars, pack, live>>

\* let pack = ssaa8(coords, &pixel_array): the table is moved into the call
Ssaa8 ==
    /\ status = "running"
    /\ live
    /\ LET r == ssaa8(feature, overflow_checks, coords, pixel_array, SSAA_SQ)
       IN  /\ pack' = IF r.panic THEN pack ELSE r.pack
           /\ status' = After(r.panic)
           /\ last' = [op |-> "ssaa8", panic |-> r.panic, sum |-> r.sum,
                       ssaa_px |-> r.ssaa_px, gets |-> r.gets]
    /\ live' = FALSE
    /\ UNCHANGED <<build_vars, blend_vars, coords, nsets, hist>>

NextBlend ==
    \/ \E bytes \in SrcSlices : New(bytes)
    \/ \E alpha_config \in AlphaConfig : Blend8(alpha_config)
    \/ Write

NextSsaa ==
    \/ ~live /\ \E bytes \in PackArgs : New(bytes)
    \/ \E pixel \in PixelArgs, sub_pixel \in 0 .. SSAA_SQ, c \in CoordArgs :
           Set(pixel, sub_pixel, c[1], c[2])
    \/ Ssaa8

SpecBlend == InitBlend /\ [][NextBlend]_vars

SpecSsaa == InitSsaa /\ [][NextSsaa]_vars

\* ------------------------------------------------------------------------
\* Properties of blend8 (checked under SpecBlend)

Blended == last.op = "blend8" /\ last.alpha_config # "None" /\ Len(last.dst) <= 32

\* the alpha lane that governs byte k (1-based) of the destination
AlphaOf(k) ==
    last.src[((k - 1) - ((k - 1) % 4)) + alpha_channel(last.alpha_config)]

\* src[i] * A + d[i] * (255 - A), in unbounded integers
Weighted(k) == last.src[k - 1] * AlphaOf(k) + last.dst[k] * (255 - AlphaOf(k))

\* C1: after blend8 with an alpha config other than None on a destination of
\* at most 32 bytes, every destination byte is
\* (src[i] * A + d[i] * (255 - A)) / 255 rounded toward zero, A being the
\* alpha lane of the byte's pixel and d the destination before the call, and
\* the weighted sum never exceeds 65535.
C1_BlendFormula ==
    Blended =>
        /\ ~last.panic
        /\ Len(dst) = Len(last.dst)
        /\ \A k \in 1 .. Len(dst) :
              /\ Weighted(k) <= 65535
              /\ dst[k] = Weighted(k) \div 255

\* a tail destination (eleven bytes) was blended and some byte took a value
\* that is neither the source's nor the old destination's, the division
\* having dropped a remainder
C1_Witness ==
    /\ Blended
    /\ Len(dst) = 11
    /\ \E k \in 1 .. Len(dst) :
          /\ dst[k] # last.dst[k]
          /\ dst[k] # last.src[k - 1]
          /\ Weighted(k) % 255 # 0

Pixel0(s) == <<s[1], s[2], s[3], s[4]>>

Scenario3 ==
    /\ last.op = "blend8"
    /\ last.alpha_config = "FirstByte"
    /\ Len(last.dst) \in 4 .. 32
    /\ <<last.src[0], last.src[1], last.src[2], last.src[3]>> = <<64, 10, 20, 30>>
    /\ Pixel0(last.dst) = <<0, 100, 100, 100>>

\* C2 as stated: blending (64, 10, 20, 30) with the alpha at byte 0 over
\* (0, 100, 100, 100) leaves (16, 77, 80, 82).
C2_Original == Scenario3 => (~last.panic /\ Pixel0(dst) = <<16, 77, 80, 82>>)

\* C2, amended: the same call leaves (16, 77, 79, 82); the third channel is
\* (20 * 64 + 100 * 191) / 255 = 20380 / 255, which rounds down to 79.
C2_Amended == Scenario3 => (~last.panic /\ Pixel0(dst) = <<16, 77, 79, 82>>)

C2_Witness == Scenario3 /\ Len(dst) = 32

Transparent ==
    /\ Blended
    /\ \A p \in 0 .. 7 : last.src[4 * p + alpha_channel(last.alpha_config)] = 0

\* C7: when the alpha lane of every pixel of the source is 0 and the config
\* is not None, blend8 leaves every destination byte as it was.
C7_TransparentKeepsDst == Transparent => (~last.panic /\ dst = last.dst)

\* a transparent source with non-zero colour lanes was blended over a
\* destination that holds bytes 255 and other non-zero bytes
C7_Witness ==
    /\ Transparent
    /\ \E l \in 0 .. 31 : last.src[l] = 255
    /\ \E k \in 1 .. Len(dst) : dst[k] = 255
    /\ \E k \in 1 .. Len(dst) : dst[k] \in 1 .. 254

\* ------------------------------------------------------------------------
\* Properties of SsaaCoords and ssaa8 (checked under SpecSsaa)

Rows == 0 .. (SSAA_SQ - 1)

Gathered == last.op = "ssaa8"

\* the machine's y * width + x of entry (i, j)
EntryIndex(i, j) ==
    (coords.src_y[i][j] * pixel_array.width + coords.src_x[i][j]) % (USIZE_MAX + 1)

EntryUsable(i, j) ==
    /\ coords.src_x[i][j] < pixel_array.width
    /\ coords.src_y[i][j] < pixel_array.height
    /\ EntryIndex(i, j) < pixel_array.length

\* channel c of the pixels of the usable entries assigned to slot o, summed
\* over the first n entries of the table
RECURSIVE SlotSum(_, _, _)
SlotSum(o, c, n) ==
    IF n = 0
    THEN 0
    ELSE LET i == (n - 1) \div 8
             j == (n - 1) % 8
         IN  SlotSum(o, c, n - 1) +
             (IF coords.src_o[i][j] = o /\ EntryUsable(i, j)
              THEN pixel_array.pixels[EntryIndex(i, j)][c + 1]
              ELSE 0)

AveragedByK ==
    \A o \in 0 .. 7 : \A c \in 0 .. 3 :
        pack[4 * o + c] = SlotSum(o, c, 8 * SSAA_SQ) \div SSAA_SQ

\* C3: for every table and every image, ssaa8 returns, in every slot and
\* channel, the sum of the usable entries of the slot divided by K (rounded
\* down); unusable entries add nothing and the divisor stays K.
C3_DividesByK == Gathered => (~last.panic /\ AveragedByK)

NeverSet == \A i \in Rows : \A j \in 0 .. 7 : ~hist[i][j].set

\* C4: on a table on which set was never called, ssaa8 completes for every
\* image geometry, calls get not once and returns 32 zero lanes.
C4_EmptyCoords ==
    (Gathered /\ NeverSet) =>
        (~last.panic /\ last.gets = <<>> /\ \A l \in 0 .. 31 : pack[l] = 0)

\* C5: every index ssaa8 passes to get is below the image's length.
C5_GetInRange ==
    Gathered =>
        \A k \in 1 .. Len(last.gets) : last.gets[k].index < pixel_array.length

\* get was called for an entry whose y * width + x wrapped around the word
C5_Witness ==
    /\ Gathered
    /\ \E k \in 1 .. Len(last.gets) :
          LET g == last.gets[k]
          IN  /\ coords.src_y[g.i][g.j] * pixel_array.width + coords.src_x[g.i][g.j]
                    > USIZE_MAX
              /\ g.index < pixel_array.length
              /\ pixel_array.length # pixel_array.width * pixel_array.height

Returned == (last.op = "new" \/ last.op = "ssaa8") /\ ~last.panic

\* C6: every lane of a pack returned by EightPixels::new or by ssaa8 is at
\* most 255, and no accumulator of ssaa8 exceeds K * 255.
C6_LaneBound ==
    /\ Returned => \A l \in 0 .. 31 : pack[l] <= 255
    /\ Gathered => \A o \in 0 .. 7 : \A c \in 0 .. 3 : last.sum[o][c] <= SSAA_SQ * 255

\* ssaa8 returned a pack with a lane of 255, gathered from K = 2 saturated
\* samples whose sum reached K * 255
C6_Witness ==
    /\ Gathered
    /\ ~last.panic
    /\ SSAA_SQ = 2
    /\ \E o \in 0 .. 7 : \E c \in 0 .. 3 :
          last.sum[o][c] = 2 * 255 /\ pack[4 * o + c] = 255

\* C8: both implementations behave alike: on the table and image of the
\* call, sequential ssaa8 and simd ssaa8 fail on the same inputs, return the
\* same pack and make the same calls to get.
C8_Parity ==
    Gathered =>
        LET a == sequential_ssaa8(overflow_checks, coords, pixel_array, SSAA_SQ)
            b == simd_ssaa8(overflow_checks, coords, pixel_array, SSAA_SQ)
        IN  a.panic = b.panic /\ a.pack = b.pack /\ a.gets = b.gets

SetCalled == last.op = "set"

\* C9: set with pixel >= 8 or sub_pixel >= K is fatal and leaves the three
\* tables as they were; with both in range it succeeds whatever x and y are.
C9_SetChecksIndices ==
    [][(last'.op = "set" /\ nsets' = nsets + 1) =>
           IF last'.pixel >= 8 \/ last'.sub_pixel >= SSAA_SQ
           THEN last'.panic /\ status' = "panicked" /\ coords' = coords
           ELSE ~last'.panic /\ status' = "running"]_vars

\* set was called with a valid pixel and sub_pixel = K on a table that
\* already holds an entry
C9_Witness ==
    /\ SetCalled
    /\ last.pixel < 8
    /\ last.sub_pixel = SSAA_SQ
    /\ last.panic
    /\ \E i \in Rows : \E j \in 0 .. 7 : hist[i][j].set

\* C10: every entry of the table is either untouched (its three fields are
\* usize::MAX) or holds its own column as output slot and the (x, y) of the
\* latest set on it; ssaa8 feeds a slot from at most K entries, all of them
\* in the slot's column.
C10_TableShape ==
    /\ \A i \in Rows : \A j \in 0 .. 7 :
          IF hist[i][j].set
          THEN /\ coords.src_o[i][j] = j
               /\ coords.src_x[i][j] = hist[i][j].x
               /\ coords.src_y[i][j] = hist[i][j].y
          ELSE /\ coords.src_o[i][j] = USIZE_MAX
               /\ coords.src_x[i][j] = USIZE_MAX
               /\ coords.src_y[i][j] = USIZE_MAX
    /\ Gathered =>
          /\ \A k \in 1 .. Len(last.gets) : last.gets[k].o = last.gets[k].j
          /\ \A o \in 0 .. 7 :
                /\ last.ssaa_px[o] <= SSAA_SQ
                /\ Cardinality({k \in 1 .. Len(last.gets) : last.gets[k].o = o})
                       <= SSAA_SQ

\* an entry that was already set has been set again with another x, next
\* to entries that were never set
C10_Witness ==
    /\ SetCalled
    /\ ~last.panic
    /\ last.old.set
    /\ last.old.x # last.x
    /\ coords.src_x[last.sub_pixel][last.pixel] = last.x
    /\ \E i \in Rows : \E j \in 0 .. 7 : ~hist[i][j].set

=============================================================================
